---- MODULE Spec2Model ----
(***************************************************************************)
(* ClockiFill (src/main.py): fills Clockify with one time entry per        *)
(* working day from the first of the current month up to now.              *)
(*                                                                         *)
(* Two specifications are given.  Spec is one run of main(); SpecWD is     *)
(* get_working_days() alone, started on arbitrary date intervals.          *)
(* Strings read from the keyboard are sequences of one-character strings,  *)
(* so that int(), strip() and lower() are computed and not assumed.        *)
(***************************************************************************)
EXTENDS Integers, Sequences, FiniteSets

VARIABLES
    pc,                  \* position of main()
    halt,                \* the exception that ended the run, or "none"
    stdin,               \* the line the operator has typed and input() has not read yet
    log,                 \* every HTTP request and every input() so far, in order
    reprompts,           \* invalid answers given so far to the validated prompts
    api_key, workspace_id, user_id,               \* ClockifyAPI fields
    projects, selected_project, tasks, selected_task,
    description_mode, billable, default_description,
    today, working_days, idx, description,
    skipped_count, added_count,
    wd_pc, start_date, end_date, current_date, wd_result   \* get_working_days() frame

vars == << pc, halt, stdin, log, reprompts, api_key, workspace_id, user_id,
           projects, selected_project, tasks, selected_task,
           description_mode, billable, default_description,
           today, working_days, idx, description, skipped_count, added_count,
           wd_pc, start_date, end_date, current_date, wd_result >>

mainVars == << pc, halt, stdin, log, reprompts, api_key, workspace_id, user_id,
               projects, selected_project, tasks, selected_task,
               description_mode, billable, default_description,
               today, idx, description, skipped_count, added_count >>

wdVars == << wd_pc, start_date, end_date, current_date, wd_result >>

(***************************************************************************)
(* Bounds of the model.                                                    *)
(***************************************************************************)
\* today's day of the month is at most MaxDay
MaxDay == 3
\* get_working_days() alone is started on dates at most MaxSpan days after an anchor
MaxSpan == 9
\* typed numbers are at most MaxInputLen characters long
MaxInputLen == 2
\* at most MaxReprompts invalid answers are typed in one run
MaxReprompts == 1

(***************************************************************************)
(* datetime: the proleptic Gregorian calendar of Python's datetime module. *)
(***************************************************************************)
None == "None"

NoDate == [year |-> 0, month |-> 0, day |-> 0,
           hour |-> 0, minute |-> 0, second |-> 0, microsecond |-> 0]

IsLeap(y) == y % 4 = 0 /\ (y % 100 # 0 \/ y % 400 = 0)

DaysInMonth(y, m) ==
    IF m = 2 THEN (IF IsLeap(y) THEN 29 ELSE 28)
    ELSE IF m \in {4, 6, 9, 11} THEN 30 ELSE 31

DaysBeforeYear(y) ==
    (y - 1) * 365 + ((y - 1) \div 4) - ((y - 1) \div 100) + ((y - 1) \div 400)

RECURSIVE DaysBeforeMonth(_, _)
DaysBeforeMonth(y, m) ==
    IF m = 1 THEN 0 ELSE DaysBeforeMonth(y, m - 1) + DaysInMonth(y, m - 1)

\* date.toordinal(): 0001-01-01 is day 1
ToOrdinal(d) == DaysBeforeYear(d.year) + DaysBeforeMonth(d.year, d.month) + d.day

\* date.weekday(): Monday = 0 ... Sunday = 6
Weekday(d) == (ToOrdinal(d) + 6) % 7

\* d + timedelta(days=1): the time of day is kept
AddOneDay(d) ==
    IF d.day < DaysInMonth(d.year, d.month)
    THEN [d EXCEPT !.day = d.day + 1]
    ELSE IF d.month < 12
         THEN [d EXCEPT !.month = d.month + 1, !.day = 1]
         ELSE [d EXCEPT !.year = d.year + 1, !.month = 1, !.day = 1]

\* a <= b on datetimes: year, month, day, hour, minute, second, microsecond in turn
DtLeq(a, b) ==
    LET ka == << a.year, a.month, a.day, a.hour, a.minute, a.second, a.microsecond >>
        kb == << b.year, b.month, b.day, b.hour, b.minute, b.second, b.microsecond >>
    IN  \/ ka = kb
        \/ \E i \in 1..7 : /\ ka[i] < kb[i]
                           /\ \A j \in 1..(i - 1) : ka[j] = kb[j]

\* datetime.replace(hour=h, minute=mi, second=0, microsecond=0)
ReplaceTime(d, h, mi) ==
    [d EXCEPT !.hour = h, !.minute = mi, !.second = 0, !.microsecond = 0]

\* today.replace(day=1, hour=9, minute=0, second=0, microsecond=0)
StartOfMonth(d) == [ReplaceTime(d, 9, 0) EXCEPT !.day = 1]

\* datetime.date()
DateOf(d) == << d.year, d.month, d.day >>

(***************************************************************************)
(* get_working_days(start_date, end_date), one loop iteration per step.    *)
(***************************************************************************)
IsWorkingDayMut(d) == Weekday(d) <= 5
IsWorkingDay(d) == Weekday(d) < 5

WDCall(s, e) ==
    /\ start_date' = s
    /\ end_date' = e
    /\ current_date' = s
    /\ wd_result' = << >>
    /\ wd_pc' = "while"

WDIterate ==
    /\ wd_pc = "while"
    /\ DtLeq(current_date, end_date)
    /\ wd_result' = IF IsWorkingDay(current_date)
                    THEN Append(wd_result, current_date)
                    ELSE wd_result
    /\ current_date' = AddOneDay(current_date)
    /\ UNCHANGED << wd_pc, start_date, end_date, working_days >>
    /\ UNCHANGED mainVars

WDReturn ==
    /\ wd_pc = "while"
    /\ ~DtLeq(current_date, end_date)
    /\ wd_pc' = "returned"
    /\ working_days' = wd_result
    /\ pc' = IF pc = "get_working_days" THEN "for_day" ELSE pc
    /\ UNCHANGED << start_date, end_date, current_date, wd_result >>
    /\ UNCHANGED << halt, stdin, log, reprompts, api_key, workspace_id, user_id,
                    projects, selected_project, tasks, selected_task,
                    description_mode, billable, default_description,
                    today, idx, description, skipped_count, added_count >>

(***************************************************************************)
(* Keyboard lines: str.strip(), str.lower() and int(str).                  *)
(***************************************************************************)
Whitespace == { " " }
Digits == { "0", "1", "2", "3" }
DigitVal(c) == CASE c = "0" -> 0 [] c = "1" -> 1 [] c = "2" -> 2 [] OTHER -> 3

RECURSIVE LStrip(_)
LStrip(s) == IF s # << >> /\ s[1] \in Whitespace THEN LStrip(Tail(s)) ELSE s

RECURSIVE RStrip(_)
RStrip(s) ==
    IF s # << >> /\ s[Len(s)] \in Whitespace
    THEN RStrip(SubSeq(s, 1, Len(s) - 1))
    ELSE s

\* str.strip()
Strip(s) == RStrip(LStrip(s))

LowerChar(c) ==
    CASE c = "Y" -> "y" [] c = "E" -> "e" [] c = "S" -> "s"
      [] c = "N" -> "n" [] c = "O" -> "o" [] OTHER -> c

\* str.lower()
Lower(s) == [i \in 1..Len(s) |-> LowerChar(s[i])]

RECURSIVE DigitsValue(_)
DigitsValue(t) ==
    IF t = << >> THEN 0
    ELSE DigitsValue(SubSeq(t, 1, Len(t) - 1)) * 10 + DigitVal(t[Len(t)])

\* int(s): surrounding whitespace is dropped, one sign is allowed, the rest
\* must be digits; ok = FALSE stands for ValueError
IntOf(s) ==
    LET t == Strip(s)
        signed == t # << >> /\ t[1] \in { "-", "+" }
        body == IF signed THEN Tail(t) ELSE t
    IN  IF body # << >> /\ \A i \in 1..Len(body) : body[i] \in Digits
        THEN [ok |-> TRUE,
              val |-> IF signed /\ t[1] = "-" THEN 0 - DigitsValue(body)
                      ELSE DigitsValue(body)]
        ELSE [ok |-> FALSE, val |-> 0]

(***************************************************************************)
(* What the environment may answer.                                        *)
(***************************************************************************)
NumChars == Digits \cup { " ", "a", "-" }

\* what the operator may type at a numbered menu
NumLines == UNION { [1..n -> NumChars] : n \in 0..MaxInputLen }

\* what the operator may type at the y/N question
BillableLines == { << >>, << "y" >>, << "Y" >>, << "y", "e", "s" >>, << "Y", "E", "S" >>,
                   << "n" >>, << "N" >>, << "n", "o" >>, << "N", "o" >>,
                   << "x" >>, << " ", "y" >>, << "y", "e" >> }

\* what the operator may type as a description
DescriptionLines == { << >>, << "Q", "A" >> }

StandardWorkday == << "S", "t", "a", "n", "d", "a", "r", "d", " ",
                      "w", "o", "r", "k", "d", "a", "y" >>

EnvApiKeys == { None, "", "key-1" }
\* what a GET may raise (raise_for_status), and what the POST may raise
GetErrors == { "HTTPError" }
RequestErrors == { "HTTPError", "ConnectionError" }
WorkspaceLists == { << >>, << [id |-> "w1"] >>, << [id |-> "w1"], [id |-> "w2"] >> }
Users == { [id |-> "u1"] }
ProjectLists == { << >>, << [id |-> "p1", name |-> "Alpha"] >> }
TaskLists == { << >>, << [id |-> "t1", name |-> "Dev"], [id |-> "t2", name |-> "Ops"] >> }
EntryLists == { << >>, << "e1" >>, << "e1", "e2" >> }

\* selected_task = None, and projects[project_idx] before the first selection
NoItem == [id |-> None, name |-> None]

\* the months datetime.now() may fall in: they start on a Friday, a Saturday
\* and a Tuesday
NowMonths == { << 2024, 3 >>, << 2024, 6 >>, << 2024, 10 >> }

\* the times of day datetime.now() may return, as (hour, minute, second,
\* microsecond): the last instant before 09:00:00 and 09:00:00 itself, the two
\* sides of the comparison with a day's 09:00:00
NowTimes == { << 8, 59, 59, 999999 >>, << 9, 0, 0, 0 >> }

Nows == { [year |-> ym[1], month |-> ym[2], day |-> d,
           hour |-> t[1], minute |-> t[2], second |-> t[3], microsecond |-> t[4]] :
          ym \in NowMonths, d \in 1..MaxDay, t \in NowTimes }

\* Python truthiness of an optional string
TruthyMut(x) == x # None
Truthy(x) == x # None /\ x # ""

(***************************************************************************)
(* Timestamps on the wire.                                                 *)
(***************************************************************************)
\* strftime("%Y-%m-%dT%H:%M:%SZ"): the fields printed, microseconds never
Strftime(d) == << d.year, d.month, d.day, d.hour, d.minute, d.second >>

\* isoformat() + "Z": microseconds are printed when they are not zero
Isoformat(d) ==
    IF d.microsecond = 0
    THEN << d.year, d.month, d.day, d.hour, d.minute, d.second >>
    ELSE << d.year, d.month, d.day, d.hour, d.minute, d.second, d.microsecond >>

\* str(billable).lower()
BoolString(b) == IF b THEN "true" ELSE "false"

Event(e, day, data) == [ev |-> e, day |-> day, data |-> data]

\* an exception nothing catches: the traceback ends the process
HaltMut(exc) ==
    /\ pc' = "for_day"
    /\ halt' = halt
Halt(exc) ==
    /\ pc' = "halted"
    /\ halt' = exc

(***************************************************************************)
(* The operator: types one line whenever input() is waiting.               *)
(***************************************************************************)
ProjectChoiceValid(line) ==
    LET r == IntOf(line) IN r.ok /\ 0 <= r.val - 1 /\ r.val - 1 < Len(projects)

ModeChoiceValid(line) ==
    LET r == IntOf(line) IN r.ok /\ 1 <= r.val /\ r.val <= 3

BillableChoiceValid(line) ==
    Lower(line) \in { << "y" >>, << "y", "e", "s" >>, << >>, << "n" >>, << "n", "o" >> }

TypeLine ==
    /\ stdin = << >>
    /\ \/ /\ pc = "select_project"
          /\ \E line \in NumLines :
                /\ ProjectChoiceValid(line) \/ reprompts < MaxReprompts
                /\ stdin' = << line >>
       \/ /\ pc = "select_task"
          /\ \E line \in NumLines : stdin' = << line >>
       \/ /\ pc = "get_description_mode"
          /\ \E line \in NumLines :
                /\ ModeChoiceValid(line) \/ reprompts < MaxReprompts
                /\ stdin' = << line >>
       \/ /\ pc = "get_billable_preference"
          /\ \E line \in BillableLines :
                /\ BillableChoiceValid(line) \/ reprompts < MaxReprompts
                /\ stdin' = << line >>
       \/ /\ pc \in { "input_default_description", "input_day_description" }
          /\ \E line \in DescriptionLines : stdin' = << line >>
    /\ UNCHANGED << pc, halt, log, reprompts, api_key, workspace_id, user_id,
                    projects, selected_project, tasks, selected_task,
                    description_mode, billable, default_description,
                    today, working_days, idx, description, skipped_count, added_count >>
    /\ UNCHANGED wdVars

(***************************************************************************)
(* ClockifyAPI.__init__ and the requests of start-up.                      *)
(***************************************************************************)
\* everything main() holds except what the named action assigns
StartupRest == << stdin, reprompts, selected_project, selected_task,
                  description_mode, billable, default_description,
                  today, working_days, idx, description, skipped_count, added_count >>

\* __init__: the credential
Construct ==
    /\ pc = "start"
    /\ \E k \in EnvApiKeys :
          /\ api_key' = k
          /\ IF Truthy(k)
             THEN pc' = "get_workspace_id" /\ halt' = halt
             ELSE Halt("ValueError")
    /\ UNCHANGED << log, workspace_id, user_id, projects, tasks >>
    /\ UNCHANGED StartupRest
    /\ UNCHANGED wdVars

\* _get_workspace_id
GetWorkspaceId ==
    /\ pc = "get_workspace_id"
    /\ \/ \E exc \in GetErrors :
             /\ log' = Append(log, Event("GET /workspaces", NoDate, exc))
             /\ Halt(exc)
             /\ workspace_id' = workspace_id
       \/ \E resp \in WorkspaceLists :
             /\ log' = Append(log, Event("GET /workspaces", NoDate,
                                         IF resp = << >> THEN "empty" ELSE "ok"))
             /\ IF resp = << >>
                THEN Halt("IndexError") /\ workspace_id' = workspace_id
                ELSE /\ workspace_id' = resp[1].id
                     /\ pc' = "get_user_id" /\ halt' = halt
    /\ UNCHANGED << api_key, user_id, projects, tasks >>
    /\ UNCHANGED StartupRest
    /\ UNCHANGED wdVars

\* _get_user_id
GetUserId ==
    /\ pc = "get_user_id"
    /\ \/ \E exc \in GetErrors :
             /\ log' = Append(log, Event("GET /user", NoDate, exc))
             /\ Halt(exc)
             /\ user_id' = user_id
       \/ \E resp \in Users :
             /\ log' = Append(log, Event("GET /user", NoDate, "ok"))
             /\ user_id' = resp.id
             /\ pc' = "get_projects" /\ halt' = halt
    /\ UNCHANGED << api_key, workspace_id, projects, tasks >>
    /\ UNCHANGED StartupRest
    /\ UNCHANGED wdVars

\* get_projects
GetProjects ==
    /\ pc = "get_projects"
    /\ \/ \E exc \in GetErrors :
             /\ log' = Append(log, Event("GET /projects", NoDate, exc))
             /\ Halt(exc)
             /\ projects' = projects
       \/ \E resp \in ProjectLists :
             /\ log' = Append(log, Event("GET /projects", NoDate, "ok"))
             /\ projects' = resp
             /\ pc' = "select_project" /\ halt' = halt
    /\ UNCHANGED << api_key, workspace_id, user_id, tasks >>
    /\ UNCHANGED StartupRest
    /\ UNCHANGED wdVars

(***************************************************************************)
(* The selections of main().                                               *)
(***************************************************************************)
\* the "Select project number" loop, one turn
SelectProject ==
    /\ pc = "select_project"
    /\ stdin # << >>
    /\ stdin' = << >>
    /\ log' = Append(log, Event("input project", NoDate, ""))
    /\ IF ProjectChoiceValid(stdin[1])
       THEN /\ selected_project' = projects[IntOf(stdin[1]).val]
            /\ pc' = "get_tasks"
            /\ reprompts' = reprompts
       ELSE /\ selected_project' = selected_project
            /\ pc' = pc
            /\ reprompts' = reprompts + 1
    /\ UNCHANGED << halt, api_key, workspace_id, user_id, projects, tasks, selected_task,
                    description_mode, billable, default_description,
                    today, working_days, idx, description, skipped_count, added_count >>
    /\ UNCHANGED wdVars

\* get_tasks, and selected_task = None
GetTasks ==
    /\ pc = "get_tasks"
    /\ \/ \E exc \in GetErrors :
             /\ log' = Append(log, Event("GET /tasks", NoDate, exc))
             /\ Halt(exc)
             /\ tasks' = tasks
       \/ \E resp \in TaskLists :
             /\ log' = Append(log, Event("GET /tasks", NoDate, "ok"))
             /\ tasks' = resp
             /\ pc' = IF resp # << >> THEN "select_task" ELSE "get_description_mode"
             /\ halt' = halt
    /\ selected_task' = NoItem
    /\ UNCHANGED << stdin, reprompts, api_key, workspace_id, user_id, projects,
                    selected_project, description_mode, billable, default_description,
                    today, working_days, idx, description, skipped_count, added_count >>
    /\ UNCHANGED wdVars

\* the task the typed line selects
ChosenTaskMut(line) ==
    IF Strip(line) = << >> THEN NoItem
    ELSE LET r == IntOf(line)
         IN  IF r.ok /\ 0 <= r.val /\ r.val < Len(tasks)
             THEN tasks[r.val + 1]
             ELSE NoItem
ChosenTask(line) ==
    IF Strip(line) = << >> THEN NoItem
    ELSE LET r == IntOf(line)
         IN  IF r.ok /\ 0 <= r.val - 1 /\ r.val - 1 < Len(tasks)
             THEN tasks[r.val]
             ELSE NoItem

\* the one task question
SelectTask ==
    /\ pc = "select_task"
    /\ stdin # << >>
    /\ stdin' = << >>
    /\ log' = Append(log, Event("input task", NoDate, ""))
    /\ selected_task' = ChosenTask(stdin[1])
    /\ pc' = "get_description_mode"
    /\ UNCHANGED << halt, reprompts, api_key, workspace_id, user_id, projects, tasks,
                    selected_project, description_mode, billable, default_description,
                    today, working_days, idx, description, skipped_count, added_count >>
    /\ UNCHANGED wdVars

\* get_description_mode, one turn of its loop
GetDescriptionMode ==
    /\ pc = "get_description_mode"
    /\ stdin # << >>
    /\ stdin' = << >>
    /\ log' = Append(log, Event("input mode", NoDate, ""))
    /\ IF ModeChoiceValid(stdin[1])
       THEN /\ description_mode' = IntOf(stdin[1]).val
            /\ pc' = "get_billable_preference"
            /\ reprompts' = reprompts
       ELSE /\ description_mode' = description_mode
            /\ pc' = pc
            /\ reprompts' = reprompts + 1
    /\ UNCHANGED << halt, api_key, workspace_id, user_id, projects, tasks,
                    selected_project, selected_task, billable, default_description,
                    today, working_days, idx, description, skipped_count, added_count >>
    /\ UNCHANGED wdVars

\* get_billable_preference, one turn of its loop, and default_description
GetBillablePreference ==
    /\ pc = "get_billable_preference"
    /\ stdin # << >>
    /\ stdin' = << >>
    /\ log' = Append(log, Event("input billable", NoDate, ""))
    /\ IF BillableChoiceValid(stdin[1])
       THEN /\ billable' = (Lower(stdin[1]) \in { << "y" >>, << "y", "e", "s" >> })
            /\ default_description' = StandardWorkday
            /\ pc' = IF description_mode = 2 THEN "input_default_description" ELSE "now"
            /\ reprompts' = reprompts
       ELSE /\ billable' = billable
            /\ default_description' = default_description
            /\ pc' = pc
            /\ reprompts' = reprompts + 1
    /\ UNCHANGED << halt, api_key, workspace_id, user_id, projects, tasks,
                    selected_project, selected_task, description_mode,
                    today, working_days, idx, description, skipped_count, added_count >>
    /\ UNCHANGED wdVars

\* mode 2: the description for all entries
InputDefaultDescription ==
    /\ pc = "input_default_description"
    /\ stdin # << >>
    /\ stdin' = << >>
    /\ log' = Append(log, Event("input description", NoDate, stdin[1]))
    /\ default_description' = stdin[1]
    /\ pc' = "now"
    /\ UNCHANGED << halt, reprompts, api_key, workspace_id, user_id, projects, tasks,
                    selected_project, selected_task, description_mode, billable,
                    today, working_days, idx, description, skipped_count, added_count >>
    /\ UNCHANGED wdVars

\* today, start_of_month and the call of get_working_days
ComputeDateRange ==
    /\ pc = "now"
    /\ \E n \in Nows :
          /\ today' = n
          /\ WDCall(StartOfMonth(n), n)
    /\ pc' = "get_working_days"
    /\ UNCHANGED << halt, stdin, log, reprompts, api_key, workspace_id, user_id,
                    projects, tasks, selected_project, selected_task,
                    description_mode, billable, default_description,
                    working_days, idx, description, skipped_count, added_count >>

(***************************************************************************)
(* The loop over working_days.  idx days are behind; day is the next one.  *)
(***************************************************************************)
Day == working_days[idx + 1]
StartTime == ReplaceTime(Day, 9, 0)
EndTimeMut == ReplaceTime(Day, 17, 30)
EndTime == ReplaceTime(Day, 16, 30)

QueryParams == [start |-> Strftime(StartTime), end |-> Strftime(EndTime),
                project |-> selected_project.id]

\* has_time_entry: len(entries) > 0
HasEntriesMut(entries) == Len(entries) > 1
HasEntries(entries) == Len(entries) > 0

\* if description_mode == 3
PromptsEachDayMut == description_mode >= 2
PromptsEachDay == description_mode = 3

LoopRest == << stdin, reprompts, api_key, workspace_id, user_id, projects, tasks,
               selected_project, selected_task, description_mode, billable,
               default_description, today, working_days >>

\* has_time_entry for the next day, and what main() does with the answer
CheckDay ==
    /\ pc = "for_day"
    /\ idx < Len(working_days)
    /\ \/ \E exc \in GetErrors :
             /\ log' = Append(log, Event("GET /time-entries", Day,
                                         [params |-> QueryParams, result |-> exc]))
             /\ Halt(exc)
             /\ UNCHANGED << idx, skipped_count, description >>
       \/ \E entries \in EntryLists :
             /\ log' = Append(log, Event("GET /time-entries", Day,
                                         [params |-> QueryParams,
                                          result |-> IF Len(entries) = 0 THEN "empty"
                                                     ELSE "found"]))
             /\ halt' = halt
             /\ IF HasEntries(entries)
                THEN /\ skipped_count' = skipped_count + 1
                     /\ idx' = idx + 1
                     /\ pc' = "for_day"
                     /\ description' = description
                ELSE /\ skipped_count' = skipped_count
                     /\ idx' = idx
                     /\ description' = default_description
                     /\ pc' = IF PromptsEachDay THEN "input_day_description"
                              ELSE "add_time_entry"
    /\ added_count' = added_count
    /\ UNCHANGED LoopRest
    /\ UNCHANGED wdVars

\* mode 3: the description of this day
InputDayDescription ==
    /\ pc = "input_day_description"
    /\ stdin # << >>
    /\ stdin' = << >>
    /\ log' = Append(log, Event("input day description", Day, stdin[1]))
    /\ description' = stdin[1]
    /\ pc' = "add_time_entry"
    /\ UNCHANGED << halt, reprompts, api_key, workspace_id, user_id, projects, tasks,
                    selected_project, selected_task, description_mode, billable,
                    default_description, today, working_days, idx,
                    skipped_count, added_count >>
    /\ UNCHANGED wdVars

\* task_id=selected_task["id"] if selected_task else None
TaskIdArg == IF selected_task # NoItem THEN selected_task.id ELSE None

\* the payload add_time_entry posts
Payload ==
    LET base == [start |-> Isoformat(StartTime), end |-> Isoformat(EndTime),
                 description |-> description, projectId |-> selected_project.id,
                 billable |-> BoolString(billable)]
    IN  IF Truthy(TaskIdArg)
        THEN [start |-> base.start, end |-> base.end,
              description |-> base.description, projectId |-> base.projectId,
              billable |-> base.billable, taskId |-> TaskIdArg]
        ELSE base

\* except requests.exceptions.HTTPError
CaughtMut(exc) == FALSE
Caught(exc) == exc = "HTTPError"

\* added_count after the call: += 1 is the last statement of the try block
AddedAfterMut(result) == added_count + 1
AddedAfter(result) == IF result = "ok" THEN added_count + 1 ELSE added_count

\* add_time_entry inside try/except requests.exceptions.HTTPError
AddTimeEntry ==
    /\ pc = "add_time_entry"
    /\ \E result \in { "ok" } \cup RequestErrors :
          /\ log' = Append(log, Event("POST /time-entries", Day,
                                      [payload |-> Payload, result |-> result]))
          /\ IF result = "ok" \/ Caught(result)
             THEN /\ added_count' = AddedAfter(result)
                  /\ idx' = idx + 1
                  /\ pc' = "for_day" /\ halt' = halt
             ELSE /\ added_count' = added_count
                  /\ idx' = idx
                  /\ Halt(result)
    /\ UNCHANGED << skipped_count, description >>
    /\ UNCHANGED LoopRest
    /\ UNCHANGED wdVars

\* the summary line
Summary ==
    /\ pc = "for_day"
    /\ idx = Len(working_days)
    /\ log' = Append(log, Event("print summary", NoDate, << added_count, skipped_count >>))
    /\ pc' = "done"
    /\ UNCHANGED << halt, idx, skipped_count, added_count, description >>
    /\ UNCHANGED LoopRest
    /\ UNCHANGED wdVars

(***************************************************************************)
(* SpecWD: get_working_days() on arbitrary date intervals.                 *)
(***************************************************************************)
Midnight(y, m, d) == [year |-> y, month |-> m, day |-> d,
                      hour |-> 0, minute |-> 0, second |-> 0, microsecond |-> 0]

\* the dates the intervals are counted from: a non-leap February, a leap
\* February, a month that starts on a Saturday, the end of a year
Anchors == { Midnight(2023, 2, 24), Midnight(2024, 2, 26),
             Midnight(2024, 6, 1), Midnight(2024, 12, 27) }

RECURSIVE AddDays(_, _)
AddDays(d, n) == IF n = 0 THEN d ELSE AddDays(AddOneDay(d), n - 1)

MainIdle ==
    /\ pc = "idle"
    /\ halt = "none"
    /\ stdin = << >>
    /\ log = << >>
    /\ reprompts = 0
    /\ api_key = None /\ workspace_id = None /\ user_id = None
    /\ projects = << >> /\ selected_project = NoItem
    /\ tasks = << >> /\ selected_task = NoItem
    /\ description_mode = 0 /\ billable = FALSE
    /\ default_description = << >>
    /\ today = NoDate
    /\ idx = 0
    /\ description = << >>
    /\ skipped_count = 0 /\ added_count = 0

InitWD ==
    /\ MainIdle
    /\ working_days = << >>
    /\ wd_pc = "while"
    /\ wd_result = << >>
    /\ \E a \in Anchors : \E i \in 0..MaxSpan : \E j \in 0..MaxSpan :
          /\ start_date = AddDays(a, i)
          /\ end_date = AddDays(a, j)
          /\ current_date = start_date

NextWD == WDIterate \/ WDReturn

SpecWD == InitWD /\ [][NextWD]_vars

(***************************************************************************)
(* Spec: one run of main().                                                *)
(***************************************************************************)
Init ==
    /\ pc = "start"
    /\ halt = "none"
    /\ stdin = << >>
    /\ log = << >>
    /\ reprompts = 0
    /\ api_key = None /\ workspace_id = None /\ user_id = None
    /\ projects = << >> /\ selected_project = NoItem
    /\ tasks = << >> /\ selected_task = NoItem
    /\ description_mode = 0 /\ billable = FALSE
    /\ default_description = << >>
    /\ today = NoDate
    /\ working_days = << >>
    /\ idx = 0
    /\ description = << >>
    /\ skipped_count = 0 /\ added_count = 0
    /\ wd_pc = "idle"
    /\ start_date = NoDate /\ end_date = NoDate /\ current_date = NoDate
    /\ wd_result = << >>

Next ==
    \/ TypeLine
    \/ Construct
    \/ GetWorkspaceId
    \/ GetUserId
    \/ GetProjects
    \/ SelectProject
    \/ GetTasks
    \/ SelectTask
    \/ GetDescriptionMode
    \/ GetBillablePreference
    \/ InputDefaultDescription
    \/ ComputeDateRange
    \/ WDIterate
    \/ WDReturn
    \/ CheckDay
    \/ InputDayDescription
    \/ AddTimeEntry
    \/ Summary

Spec == Init /\ [][Next]_vars

(***************************************************************************)
(* Reading the log.                                                        *)
(***************************************************************************)
IsPost(e) == e.ev = "POST /time-entries"
IsCheck(e) == e.ev = "GET /time-entries"
IsDayPrompt(e) == e.ev = "input day description"

\* the positions of the log that hold an event of kind ev
At(ev) == { i \in 1..Len(log) : log[i].ev = ev }

\* the positions of the log that hold an event of kind ev about day d
AtDay(ev, d) == { i \in At(ev) : log[i].day = d }

Posts == SelectSeq(log, IsPost)

\* Monday to Friday, counted from 0001-01-01, a Monday
IsMonToFri(y, m, d) == (DaysBeforeYear(y) + DaysBeforeMonth(y, m) + d - 1) % 7 < 5

\* the position of day d in working_days
IndexOfDay(d) == CHOOSE k \in 1..Len(working_days) : working_days[k] = d

RangeComputed == pc \in { "for_day", "input_day_description", "add_time_entry", "done" }

(***************************************************************************)
(* C1: get_working_days(D1, D2) returns exactly the dates of the closed    *)
(* interval [D1, D2] that fall on Monday to Friday, in ascending order,    *)
(* each once; nothing when D1 > D2.                                        *)
(***************************************************************************)
C1_WorkingDaysExact ==
    wd_pc = "returned" =>
        LET lo == ToOrdinal(start_date)
            hi == ToOrdinal(end_date)
            wanted == { n \in lo..hi : (n - 1) % 7 < 5 }
        IN  /\ Len(working_days) = Cardinality(wanted)
            /\ \A i \in 1..Len(working_days) :
                  /\ ToOrdinal(working_days[i]) \in wanted
                  /\ working_days[i].day <= DaysInMonth(working_days[i].year,
                                                        working_days[i].month)
                  /\ working_days[i].month \in 1..12
            /\ \A i \in 1..(Len(working_days) - 1) :
                  ToOrdinal(working_days[i]) < ToOrdinal(working_days[i + 1])
            /\ (~DtLeq(start_date, end_date) => working_days = << >>)

\* June 2024 starts on a Saturday: from the 1st to the 7th the result is the 3rd to the 7th
C1_Witness ==
    /\ wd_pc = "returned"
    /\ pc = "idle"
    /\ DateOf(start_date) = << 2024, 6, 1 >>
    /\ DateOf(end_date) = << 2024, 6, 7 >>
    /\ Len(working_days) = 5
    /\ DateOf(working_days[1]) = << 2024, 6, 3 >>

ProcessedDates == { DateOf(working_days[i]) : i \in 1..Len(working_days) }

WeekdaysToToday ==
    { << today.year, today.month, d >> : d \in { x \in 1..today.day :
                                                  IsMonToFri(today.year, today.month, x) } }

(***************************************************************************)
(* C2: whatever the time of day, the days main() processes are all the     *)
(* dates from the first of the month to today that fall on Monday to       *)
(* Friday; today is among them when it is a weekday.                       *)
(***************************************************************************)
C2_AllWeekdaysToToday ==
    RangeComputed => ProcessedDates = WeekdaysToToday

\* what the code computes instead: today is left out before 09:00:00
C2_Computed ==
    RangeComputed =>
        ProcessedDates =
            { dt \in WeekdaysToToday :
                 \/ dt[3] < today.day
                 \/ DtLeq(ReplaceTime(today, 9, 0), today) }

\* 08:59:59.999999 on Tuesday 1 October 2024: nothing is processed
C2_BeforeNine ==
    /\ pc = "done"
    /\ DateOf(today) = << 2024, 10, 1 >>
    /\ today.hour = 8
    /\ working_days = << >>

(***************************************************************************)
(* C3: every creation call so far is for a Monday-to-Friday date between   *)
(* the first of the month and today, from 09:00:00 to 16:30:00 of that     *)
(* date; the calls are in ascending date order, at most one per date.      *)
(***************************************************************************)
C3_CreationsInWindow ==
    LET posts == Posts
    IN  /\ \A i \in 1..Len(posts) :
              LET d == posts[i].day
                  p == posts[i].data.payload
              IN  /\ d.year = today.year /\ d.month = today.month
                  /\ 1 <= d.day /\ d.day <= today.day
                  /\ IsMonToFri(d.year, d.month, d.day)
                  /\ p.start = << d.year, d.month, d.day, 9, 0, 0 >>
                  /\ p.end = << d.year, d.month, d.day, 16, 30, 0 >>
        /\ \A i \in 1..(Len(posts) - 1) : posts[i].day.day < posts[i + 1].day.day

C3_Witness ==
    /\ Len(Posts) >= 2
    /\ Posts[1].data.result = "ok"
    /\ Posts[2].day.day = today.day

(***************************************************************************)
(* C4: a creation call that fails with an HTTP error does not end the      *)
(* loop: the day is not retried, the next event is the existence check of  *)
(* the next working day (or the summary after the last one), and a run     *)
(* that reaches the summary has checked every working day.                 *)
(***************************************************************************)
C4_FailedCreationIsolated ==
    /\ \A i \in At("POST /time-entries") :
          log[i].data.result = "HTTPError" =>
             LET d == log[i].day
                 k == IndexOfDay(d)
             IN  /\ AtDay("POST /time-entries", d) = { i }
                 /\ i = Len(log) => (pc = "for_day" /\ idx = k /\ halt = "none")
                 /\ i < Len(log) =>
                       IF k < Len(working_days)
                       THEN IsCheck(log[i + 1]) /\ log[i + 1].day = working_days[k + 1]
                       ELSE log[i + 1].ev = "print summary"
    /\ pc = "done" =>
          \A k \in 1..Len(working_days) :
             Cardinality(AtDay("GET /time-entries", working_days[k])) = 1

\* a failed creation on one day, a successful one on a later day, then the summary
C4_Witness ==
    /\ pc = "done"
    /\ \E i \in At("POST /time-entries") : \E j \in At("POST /time-entries") :
          /\ i < j
          /\ log[i].data.result = "HTTPError"
          /\ log[j].data.result = "ok"

FoundChecks == { i \in At("GET /time-entries") : log[i].data.result = "found" }

(***************************************************************************)
(* C5: each working day is asked about once, before anything else about    *)
(* that day; an entry is created exactly for the days whose query came     *)
(* back empty; a day whose query found entries adds one to skipped_count,  *)
(* gets no creation call and no description prompt, and the loop goes on   *)
(* with the next day.                                                      *)
(***************************************************************************)
C5_CheckDecidesCreation ==
    LET checks == At("GET /time-entries")
        posts == At("POST /time-entries")
        prompts == At("input day description")
        found == { i \in checks : log[i].data.result = "found" }
        empty == { i \in checks : log[i].data.result = "empty" }
    IN  /\ \A i \in checks : \A j \in checks : log[i].day = log[j].day => i = j
        /\ \A i \in posts \cup prompts :
              \E j \in empty : j < i /\ log[j].day = log[i].day
        /\ \A j \in empty :
              \/ /\ j = Len(log)
                 /\ pc \in { "input_day_description", "add_time_entry" }
                 /\ Day = log[j].day
              \/ /\ j < Len(log)
                 /\ log[j + 1].day = log[j].day
                 /\ \/ IsPost(log[j + 1])
                    \/ /\ IsDayPrompt(log[j + 1])
                       /\ \/ j + 1 = Len(log) /\ pc = "add_time_entry" /\ Day = log[j].day
                          \/ j + 1 < Len(log) /\ IsPost(log[j + 2])
                                              /\ log[j + 2].day = log[j].day
        /\ \A j \in found :
              LET k == IndexOfDay(log[j].day)
              IN  /\ \A i \in posts \cup prompts : log[i].day # log[j].day
                  /\ j = Len(log) => (pc = "for_day" /\ idx = k)
                  /\ j < Len(log) =>
                        IF k < Len(working_days)
                        THEN IsCheck(log[j + 1]) /\ log[j + 1].day = working_days[k + 1]
                        ELSE log[j + 1].ev = "print summary"
        /\ skipped_count = Cardinality(found)
        /\ pc = "done" =>
              \A k \in 1..Len(working_days) :
                 (\E i \in posts : log[i].day = working_days[k])
                    <=> (\E j \in empty : log[j].day = working_days[k])

\* one day skipped, a later day created
C5_Witness ==
    /\ pc = "done"
    /\ \E j \in FoundChecks : \E i \in At("POST /time-entries") : j < i
    /\ skipped_count >= 1

OkPosts == { i \in At("POST /time-entries") : log[i].data.result = "ok" }
FailedPosts == { i \in At("POST /time-entries") : log[i].data.result = "HTTPError" }

C6_AtSummary ==
    pc = "done" =>
        /\ added_count = Cardinality(OkPosts)
        /\ skipped_count = Cardinality(FoundChecks)
        /\ log[Len(log)].data = << added_count, skipped_count >>
        /\ added_count + skipped_count + Cardinality(FailedPosts) = Len(working_days)
        /\ (added_count + skipped_count = Len(working_days)) <=> (FailedPosts = { })

C6_Step ==
    /\ added_count' \in { added_count, added_count + 1 }
    /\ skipped_count' \in { skipped_count, skipped_count + 1 }
    /\ (added_count' + skipped_count') - (added_count + skipped_count)
          \in { 0, idx' - idx }
    /\ idx' - idx \in { 0, 1 }

(***************************************************************************)
(* C6: at the summary added_count is the number of creation calls that     *)
(* succeeded and skipped_count the number of days found to have an entry;  *)
(* a day whose creation failed is in neither, so added + skipped + failed  *)
(* is the number of working days, and added + skipped is that number       *)
(* exactly when no creation failed.  Neither counter ever goes down, and   *)
(* one day moves at most one of them, by one.                              *)
(***************************************************************************)
C6_Tallies == [](C6_AtSummary /\ added_count + skipped_count <= idx) /\ [][C6_Step]_vars

\* a run with one entry added, one day skipped and one creation failed
C6_Witness ==
    /\ pc = "done"
    /\ added_count = 1 /\ skipped_count = 1
    /\ Cardinality(FailedPosts) = 1
    /\ Len(working_days) = 3

(***************************************************************************)
(* C7: mode 1 posts "Standard workday" every time; mode 2 asks once,       *)
(* before the loop, and posts that answer every time; mode 3 asks once     *)
(* for each day that reaches creation and posts that day's answer.  Modes  *)
(* 1 and 2 never ask inside the loop.                                      *)
(***************************************************************************)
C7_DescriptionByMode ==
    /\ description_mode # 2 => At("input description") = { }
    /\ description_mode # 3 => At("input day description") = { }
    /\ description_mode = 1 =>
          \A i \in 1..Len(Posts) : Posts[i].data.payload.description = StandardWorkday
    /\ (description_mode = 2 /\ pc \notin { "get_billable_preference",
                                             "input_default_description" }) =>
          /\ Cardinality(At("input description")) = 1
          /\ \A a \in At("input description") :
                /\ \A c \in At("GET /time-entries") : a < c
                /\ \A i \in 1..Len(Posts) : Posts[i].data.payload.description = log[a].data
    /\ description_mode = 3 =>
          /\ \A i \in At("POST /time-entries") :
                /\ i > 1
                /\ IsDayPrompt(log[i - 1])
                /\ log[i - 1].day = log[i].day
                /\ log[i - 1].data = log[i].data.payload.description
          /\ \A a \in At("input day description") :
                /\ AtDay("input day description", log[a].day) = { a }
                /\ a = Len(log) => pc = "add_time_entry"
                /\ a < Len(log) => IsPost(log[a + 1])

\* mode 3, two days created with different answers
C7_Witness ==
    /\ description_mode = 3
    /\ Len(Posts) >= 2
    /\ Posts[1].data.payload.description # Posts[2].data.payload.description

StartupOrder == << "GET /workspaces", "GET /user", "GET /projects" >>

C8_StartupInv ==
    /\ \A i \in 1..Len(log) : i <= 3 => log[i].ev = StartupOrder[i]
    /\ \A i \in 1..Len(log) : i > 3 => log[i].ev \notin { "GET /workspaces", "GET /user",
                                                          "GET /projects" }
    /\ (pc # "start" /\ (api_key = None \/ api_key = "")) => (pc = "halted" /\ log = << >>)
    /\ \A i \in 1..Len(log) :
          (i <= 3 /\ log[i].data # "ok") => (i = Len(log) /\ pc = "halted" /\ stdin = << >>)
    /\ Len(log) >= 2 => workspace_id # None
    /\ Len(log) >= 3 => user_id # None
    /\ Len(log) >= 1 => (api_key # None /\ api_key # "")

C8_Step ==
    /\ pc # "start" => api_key' = api_key
    /\ workspace_id # None => workspace_id' = workspace_id
    /\ user_id # None => user_id' = user_id
    /\ pc = "halted" => UNCHANGED vars

(***************************************************************************)
(* C8: the credential is checked, then the workspace, the user and the     *)
(* project list are fetched, in that order; when one of these steps fails  *)
(* the run ends there, with no later request, prompt or creation call.     *)
(* The workspace ID, the user ID and the credential never change once set. *)
(***************************************************************************)
C8_StartupFatal == []C8_StartupInv /\ [][C8_Step]_vars

\* the user request failed: two requests were made and the run is over
C8_Witness ==
    /\ pc = "halted"
    /\ Len(log) = 2
    /\ log[2].ev = "GET /user"
    /\ log[2].data = "HTTPError"
    /\ workspace_id = "w1"

C9_Inv ==
    /\ Cardinality(At("input task")) <= 1
    /\ (At("input task") # { }) => tasks # << >>
    /\ (pc = "select_task") => (tasks # << >> /\ At("input task") = { })
    /\ \A i \in 1..Len(Posts) :
          LET p == Posts[i].data.payload
          IN  IF selected_task = NoItem
              THEN "taskId" \notin DOMAIN p
              ELSE "taskId" \in DOMAIN p /\ p.taskId = selected_task.id
    /\ (tasks = << >>) => selected_task = NoItem

C9_Step ==
    /\ (pc = "select_task" /\ pc' # pc) =>
          LET line == stdin[1]
              r == IntOf(line)
          IN  IF r.ok /\ r.val \in 1..Len(tasks)
              THEN selected_task' = tasks[r.val]
              ELSE selected_task' = NoItem
    /\ (pc \notin { "select_task", "get_tasks" }) => selected_task' = selected_task

(***************************************************************************)
(* C9: the task question is asked at most once, and only when the project  *)
(* has tasks.  An ordinal k between 1 and the number of tasks selects the  *)
(* k-th task and every creation call carries its ID; a blank line, a line  *)
(* that is no number or a number out of range selects nothing, and then    *)
(* no creation call carries a taskId.                                      *)
(***************************************************************************)
C9_TaskSelection == []C9_Inv /\ [][C9_Step]_vars

\* the second task was chosen and two creation calls carried it
C9_Witness ==
    /\ Len(tasks) = 2
    /\ selected_task = tasks[2]
    /\ Len(Posts) >= 2
    /\ Posts[2].data.payload.taskId = "t2"

\* no task chosen although the project has tasks, and a creation call was made
C9_WitnessNone ==
    /\ Len(tasks) = 2
    /\ selected_task = NoItem
    /\ Len(Posts) >= 1

FailedChecks == { i \in At("GET /time-entries") : log[i].data.result \in RequestErrors }

C10_Inv ==
    \A j \in FailedChecks :
        /\ j = Len(log)
        /\ pc = "halted"
        /\ halt = log[j].data.result
        /\ At("print summary") = { }
        /\ log[j].day = working_days[idx + 1]
        /\ \A k \in (idx + 2)..Len(working_days) :
              /\ AtDay("GET /time-entries", working_days[k]) = { }
              /\ AtDay("POST /time-entries", working_days[k]) = { }
        /\ added_count = Cardinality(OkPosts)

C10_Step == \/ log' = log
            \/ \E e \in { log'[Len(log')] } : log' = Append(log, e)

(***************************************************************************)
(* C10: an existence query that fails is caught by nothing: the run ends   *)
(* at that day, no later day is checked or created, the summary is never   *)
(* printed, and the creation calls already made stay made.                 *)
(***************************************************************************)
C10_CheckFailureAborts == []C10_Inv /\ [][C10_Step]_vars

\* an entry was created for the first day, the query for the second failed, a third day is left
C10_Witness ==
    /\ pc = "halted"
    /\ FailedChecks # { }
    /\ Cardinality(OkPosts) = 1
    /\ idx = 1
    /\ Len(working_days) = 3

====
